---- MODULE Spec2Model ----
(***************************************************************************)
(* ElasticBufferedReadStream (src/src/lib.rs): a chunked read buffer over  *)
(* a std::io::Read source with checkpoint / reset, and lazy eviction of    *)
(* the chunks no live checkpoint and no cursor still needs.                *)
(*                                                                         *)
(* The stream object is the record of its fields (self); every method is   *)
(* an operator from self to self and every public operation is one action. *)
(* Variables whose comment says "history" are not program state: they     *)
(* record what the last call returned, for the properties below.           *)
(***************************************************************************)
EXTENDS Integers, Sequences, FiniteSets, TLC

\* ---------------------------------------------------------------- bounds
\* ITEM_INDEX_SIZE is 13 in the source (lib.rs:9); the model keeps the
\* arithmetic and scales the chunk down so that chunk boundaries are crossed.
ITEM_INDEX_SIZE == 1
\* longest source, in bytes
MaxLen == 4
\* most CheckPoint handles the consumer holds at a time, and most tracking
\* entries (live or expired) in the registry
MaxHandles == 2
\* most non-transient read errors the source produces in one run
MaxFailures == 1

\* ------------------------------------------------------------- constants
ITEM_INDEX_MASK == (2 ^ ITEM_INDEX_SIZE) - 1
CHUNK_SIZE == 2 ^ ITEM_INDEX_SIZE

\* read calls of one chunk fill whose outcome is chosen freely: as many as
\* a fill needs when every read delivers a single byte
MaxEvents == CHUNK_SIZE

\* Option<usize>
None == [some |-> FALSE, val |-> 0]
Some(v) == [some |-> TRUE, val |-> v]

Min2(a, b) == IF a <= b THEN a ELSE b

\* The i-th byte (1-based) of the source: every position carries its own
\* non-zero value, so a byte served from the wrong place, or a byte of a
\* zero-initialised chunk that was never filled, is told apart.
SourceByte(i) == ((i - 1) % 255) + 1
SourceData(n) == [i \in 1..n |-> SourceByte(i)]

(***************************************************************************)
(* history last: op the call ("new", "uncons", "reset", or "handle" for    *)
(* checkpoint / clone / drop), res its result, before position() when it   *)
(* began, fetched whether it fetched a chunk, len the chunk count when it  *)
(* began, expired the registry entries without a handle when it began, ref *)
(* the position the checkpoint of a reset was taken at (kept by the uncons *)
(* that directly follows the reset), -1 otherwise.                         *)
(***************************************************************************)
VARIABLES
    raw_read,      \* the source: [data, pos], pos bytes already delivered
    buffer,        \* VecDeque<[u8; CHUNK_SIZE]>: sequence of [bytes, no]
    eof,           \* Option<NonZeroUsize>
    checkpoints,   \* CheckPointSet: sequence of [pos, strong, born]
    cursor_pos,
    offset,
    panic,         \* "none", or the assertion / unwrap / underflow that fired
    last,          \* history: the last operation and its result
    last_fill,     \* history: the last chunk fill, with and without interrupts
    fresh_reads,   \* history: successful reads so far, -1 once reset was called
    at_eoi,        \* history: last uncons returned EndOfInput, no reset since
    io_failures    \* history: non-transient read errors so far

vars == <<raw_read, buffer, eof, checkpoints, cursor_pos, offset, panic,
          last, last_fill, fresh_reads, at_eoi, io_failures>>

\* self, the fields of ElasticBufferedReadStream (lib.rs:81-88), plus the
\* panic raised while a method ran
Self == [raw_read |-> raw_read, buffer |-> buffer, eof |-> eof,
         checkpoints |-> checkpoints, cursor_pos |-> cursor_pos,
         offset |-> offset, panic |-> "none"]

Raise(s, what) == IF s.panic = "none" THEN [s EXCEPT !.panic = what] ELSE s

\* ------------------------------------------------------------ checkpoints
\* A registry entry is the Weak to one Rc<Cell<usize>>: pos is the cell,
\* strong the number of CheckPoint handles (Rc clones) the consumer holds;
\* the Weak upgrades iff strong > 0.  born is history: position() when the
\* checkpoint was taken.
Upgrades(cp) == cp.strong > 0

\* CheckPointSet::insert
CheckPointSet_insert(set, pos, born) ==
    Append(set, [pos |-> pos, strong |-> 1, born |-> born])

\* mutant of CheckPointSet::min: the scan takes every entry for live, so an
\* expired checkpoint stays in the registry and counts in the minimum
RECURSIVE MinOfAll(_, _, _)
MinOfAll(set, i, min) ==
    IF i > Len(set) THEN min
    ELSE MinOfAll(set, i + 1,
                  Some(IF min.some THEN Min2(set[i].pos, min.val) ELSE set[i].pos))

CheckPointSet_min_keeps_expired(set) ==
    [set |-> set, min |-> MinOfAll(set, 1, None)]

\* CheckPointSet::min: retain the entries that upgrade, folding their minimum
RECURSIVE MinScan(_, _, _, _)
MinScan(set, i, kept, min) ==
    IF i > Len(set) THEN [set |-> kept, min |-> min]
    ELSE IF Upgrades(set[i])
         THEN LET pos == set[i].pos
                  min_val == IF min.some THEN Min2(pos, min.val) ELSE pos
              IN  MinScan(set, i + 1, Append(kept, set[i]), Some(min_val))
         ELSE MinScan(set, i + 1, kept, min)

\* mutant of CheckPointSet::min: the minimum is right, the closure of retain
\* returns true for an entry that does not upgrade
CheckPointSet_min_retains_all(set) ==
    [set |-> set, min |-> MinScan(set, 1, <<>>, None).min]

CheckPointSet_min(set) == MinScan(set, 1, <<>>, None)

\* mutant of CheckPointSet::sub_offset: the checkpoints are not rebased
CheckPointSet_sub_offset_skipped(s, value) == s

\* CheckPointSet::sub_offset: usize subtraction on every entry; an entry
\* that does not upgrade makes unwrap() panic, a negative result is the
\* usize underflow
CheckPointSet_sub_offset(s, value) ==
    LET set == s.checkpoints
        s1  == IF \E i \in 1..Len(set) : ~Upgrades(set[i])
               THEN Raise(s, "sub_offset_unwrap") ELSE s
        s2  == IF \E i \in 1..Len(set) : set[i].pos < value
               THEN Raise(s1, "sub_offset_underflow") ELSE s1
    IN  [s2 EXCEPT !.checkpoints =
            [i \in 1..Len(set) |-> [set[i] EXCEPT !.pos = set[i].pos - value]]]

\* ----------------------------------------------------------------- stream
\* cursor_pos >> ITEM_INDEX_SIZE
chunk_index(s) == s.cursor_pos \div (2 ^ ITEM_INDEX_SIZE)
\* cursor_pos & ITEM_INDEX_MASK, the mask being 2^ITEM_INDEX_SIZE - 1
item_index(s) == s.cursor_pos % (ITEM_INDEX_MASK + 1)

\* Positioned::position
position(s) == s.offset + s.cursor_pos

\* number of chunks fetched so far (history numbering of the chunks)
NextChunkNo(s) ==
    IF Len(s.buffer) = 0 THEN s.offset \div CHUNK_SIZE
    ELSE s.buffer[Len(s.buffer)].no + 1

\* mutant of lines 112-113: the checkpoints are left out of the minimum
global_pos_min_cursor_only(s, checkpoint_pos_min) == s.cursor_pos

\* mutants of line 116: nothing is drained; one chunk too few is drained
drain_nothing(buf, drain_quantity) == buf
drain_one_less(buf, drain_quantity) ==
    SubSeq(buf, IF drain_quantity > 0 THEN drain_quantity ELSE 1, Len(buf))

\* mutants of line 120: the offset is not advanced; it is advanced by the
\* number of chunks instead of the number of bytes
add_offset_lost(off, offset_delta) == off
add_offset_chunks(off, offset_delta) == off + (offset_delta \div CHUNK_SIZE)

\* mutant of lines 112-113: the chunk before the one of the minimum is kept
global_pos_min_one_chunk_back(s, checkpoint_pos_min) ==
    LET least == IF checkpoint_pos_min.some
                 THEN Min2(checkpoint_pos_min.val, s.cursor_pos)
                 ELSE s.cursor_pos
    IN  IF least >= CHUNK_SIZE THEN least - CHUNK_SIZE ELSE least

\* free_useless_chunks, lines 112-113:
\* checkpoint_pos_min.map_or(cursor_pos, |cp_min| cp_min.min(cursor_pos))
global_pos_min(s, checkpoint_pos_min) ==
    IF checkpoint_pos_min.some
    THEN Min2(checkpoint_pos_min.val, s.cursor_pos)
    ELSE s.cursor_pos

\* free_useless_chunks, line 116: buffer.drain(..drain_quantity)
drain(buf, drain_quantity) == SubSeq(buf, drain_quantity + 1, Len(buf))

\* free_useless_chunks, line 120: offset += offset_delta as u64
add_offset(off, offset_delta) == off + offset_delta

\* ElasticBufferedReadStream::free_useless_chunks
free_useless_chunks(s) ==
    LET scan == CheckPointSet_min(s.checkpoints)
        drain_quantity == global_pos_min(s, scan.min) \div CHUNK_SIZE
        s1 == IF drain_quantity > Len(s.buffer) THEN Raise(s, "drain_range") ELSE s
        offset_delta == drain_quantity * CHUNK_SIZE
        s2 == IF s.cursor_pos < offset_delta
              THEN Raise(s1, "cursor_underflow") ELSE s1
        s3 == [s2 EXCEPT
                 !.checkpoints = scan.set,
                 !.buffer = drain(s.buffer, drain_quantity),
                 !.cursor_pos = s.cursor_pos - offset_delta,
                 !.offset = add_offset(s.offset, offset_delta)]
    IN  CheckPointSet_sub_offset(s3, offset_delta)

\* ------------------------------------------------------------- the source
\* Outcome of one reader.read(chunk) call: "full" delivers as much as fits,
\* "short" a single byte, "intr" is ErrorKind::Interrupted, "err" any other
\* error.  An exhausted source delivers Ok(0).  A fill is given the outcomes
\* of its first read calls; the calls after those are "full".
Events == {"short", "intr", "err"}

RECURSIVE SeqsUpTo(_, _)
SeqsUpTo(S, n) ==
    IF n = 0 THEN {<<>>}
    ELSE LET shorter == SeqsUpTo(S, n - 1)
         IN  shorter \cup {Append(q, e) : q \in shorter, e \in S}

EventSeqs == SeqsUpTo(Events, MaxEvents)
NoEvents == <<>>

ReadCount(r, room, ev) ==
    LET remaining == Len(r.data) - r.pos
    IN  IF ev = "short" THEN Min2(1, Min2(remaining, room))
        ELSE Min2(remaining, room)

\* mutant of read_exact_or_eof: an interrupted read ends the fill like Ok(0)
RECURSIVE FillLoop_intr_breaks(_, _, _, _)
FillLoop_intr_breaks(r, chunk, k, evs) ==
    IF k = CHUNK_SIZE
    THEN [reader |-> r, chunk |-> chunk, err |-> FALSE, eof |-> None,
          retries |-> 0]
    ELSE LET ev   == IF evs = <<>> THEN "full" ELSE Head(evs)
             rest == IF evs = <<>> THEN <<>> ELSE Tail(evs)
             n    == ReadCount(r, CHUNK_SIZE - k, ev)
         IN  IF ev = "err"
             THEN [reader |-> r, chunk |-> chunk, err |-> TRUE, eof |-> None,
                   retries |-> 0]
             ELSE IF ev = "intr" \/ n = 0
             THEN [reader |-> r, chunk |-> chunk, err |-> FALSE,
                   eof |-> Some(CHUNK_SIZE - k),
                   retries |-> IF ev = "intr" THEN 1 ELSE 0]
             ELSE FillLoop_intr_breaks([r EXCEPT !.pos = r.pos + n],
                           [i \in 1..CHUNK_SIZE |->
                               IF i > k /\ i <= k + n
                               THEN r.data[r.pos + (i - k)] ELSE chunk[i]],
                           k + n, rest)

\* read_exact_or_eof: the loop, with k bytes of the chunk already filled and
\* evs the outcomes of the coming read calls (all "full" once evs is used up).
\* Returns the reader, the chunk, Err or Ok(Option<NonZeroUsize>), and (history)
\* how many times the Interrupted arm was taken.
RECURSIVE FillLoop(_, _, _, _)
FillLoop(r, chunk, k, evs) ==
    IF k = CHUNK_SIZE                                       \* chunk.is_empty()
    THEN [reader |-> r, chunk |-> chunk, err |-> FALSE, eof |-> None,
          retries |-> 0]
    ELSE LET ev   == IF evs = <<>> THEN "full" ELSE Head(evs)
             rest == IF evs = <<>> THEN <<>> ELSE Tail(evs)
             n    == ReadCount(r, CHUNK_SIZE - k, ev)
         IN  IF ev = "intr"
             THEN [FillLoop(r, chunk, k, rest) EXCEPT !.retries = @ + 1]
             ELSE IF ev = "err"
             THEN [reader |-> r, chunk |-> chunk, err |-> TRUE, eof |-> None,
                   retries |-> 0]
             ELSE IF n = 0                                  \* Ok(0) => break
             THEN [reader |-> r, chunk |-> chunk, err |-> FALSE,
                   eof |-> Some(CHUNK_SIZE - k), retries |-> 0]
             ELSE FillLoop([r EXCEPT !.pos = r.pos + n],
                           [i \in 1..CHUNK_SIZE |->
                               IF i > k /\ i <= k + n
                               THEN r.data[r.pos + (i - k)] ELSE chunk[i]],
                           k + n, rest)

read_exact_or_eof(reader, chunk, evs) == FillLoop(reader, chunk, 0, evs)

ZeroChunk == [i \in 1..CHUNK_SIZE |-> 0]

\* the same read outcomes with the interrupted ones taken out
Strip(evs) == SelectSeq(evs, LAMBDA e : e # "intr")

\* uncons, lines 157-162: the cursor ran off the buffered data.  The chunk
\* is pushed before the fill and the fill writes into it in place, so it
\* stays in the buffer when `?` returns the error; self.eof is assigned
\* only when the fill returns Ok.
fetch_chunk(s, evs) ==
    LET s1   == IF s.eof.some THEN Raise(s, "assert_eof") ELSE s
        s2   == free_useless_chunks(s1)
        fill == read_exact_or_eof(s2.raw_read, ZeroChunk, evs)
        s3   == [s2 EXCEPT
                   !.buffer = Append(s2.buffer,
                                [bytes |-> fill.chunk, no |-> NextChunkNo(s2)]),
                   !.raw_read = fill.reader,
                   !.eof = IF fill.err THEN s2.eof ELSE fill.eof]
    IN  [self |-> s3, err |-> fill.err]

\* mutant of lines 164-170: `>` for `>=`
end_of_input_off_by_one(s) ==
    /\ chunk_index(s) = Len(s.buffer) - 1
    /\ s.eof.some
    /\ item_index(s) > CHUNK_SIZE - s.eof.val

\* mutant of lines 164-170: the marker is taken for a count from the left
end_of_input_from_left(s) ==
    /\ chunk_index(s) = Len(s.buffer) - 1
    /\ s.eof.some
    /\ item_index(s) >= s.eof.val

\* uncons, lines 164-170: the cursor is in the last chunk, at or after the
\* first byte the source did not fill
end_of_input(s) ==
    /\ chunk_index(s) = Len(s.buffer) - 1
    /\ s.eof.some
    /\ item_index(s) >= CHUNK_SIZE - s.eof.val

Ok(item) == [kind |-> "ok", item |-> item]
EndOfInput == [kind |-> "eoi", item |-> 0]
IoError == [kind |-> "err", item |-> 0]
Panicked == [kind |-> "panic", item |-> 0]
NoResult == [kind |-> "none", item |-> 0]

\* mutant of line 167: the cursor is advanced before the error is returned
return_end_of_input_advancing(s) ==
    [self |-> [s EXCEPT !.cursor_pos = s.cursor_pos + 1], res |-> EndOfInput]

\* uncons, line 167: return Err(end_of_input()), the cursor left where it is
return_end_of_input(s) == [self |-> s, res |-> EndOfInput]

\* uncons, lines 172-176
take_item(s) ==
    IF chunk_index(s) >= Len(s.buffer)
    THEN [self |-> Raise(s, "get_unwrap"), res |-> Panicked]
    ELSE [self |-> [s EXCEPT !.cursor_pos = s.cursor_pos + 1],
          res |-> Ok(s.buffer[chunk_index(s) + 1].bytes[item_index(s) + 1])]

\* StreamOnce::uncons
uncons(s, evs) ==
    IF chunk_index(s) > Len(s.buffer)
    THEN [self |-> Raise(s, "assert_chunk_index"), res |-> Panicked,
          fetched |-> FALSE]
    ELSE LET fetched == chunk_index(s) = Len(s.buffer)
             f  == IF fetched THEN fetch_chunk(s, evs)
                   ELSE [self |-> s, err |-> FALSE]
             s1 == f.self
         IN  IF s1.panic # "none"
             THEN [self |-> s1, res |-> Panicked, fetched |-> fetched]
             ELSE IF f.err
             THEN [self |-> s1, res |-> IoError, fetched |-> fetched]
             ELSE IF end_of_input(s1)
             THEN [self |-> return_end_of_input(s1).self,
                   res |-> return_end_of_input(s1).res, fetched |-> fetched]
             ELSE LET t == take_item(s1)
                  IN  [self |-> t.self, res |-> t.res, fetched |-> fetched]

\* mutant of checkpoint: the cell is given position(), not cursor_pos
checkpoint_absolute(s) ==
    [s EXCEPT !.checkpoints =
        CheckPointSet_insert(s.checkpoints, position(s), position(s))]

\* Resetable::checkpoint
checkpoint(s) ==
    [s EXCEPT !.checkpoints =
        CheckPointSet_insert(s.checkpoints, s.cursor_pos, position(s))]

\* mutant of the drop of a handle: chunks are freed eagerly, as soon as the
\* handle is gone
drop_handle_evicting(s, i) ==
    free_useless_chunks([s EXCEPT !.checkpoints[i].strong = s.checkpoints[i].strong - 1])

\* mutant of the drop of a handle: the cell goes with the first handle
\* dropped, whatever clones are left
drop_all_handles(s, i) == [s EXCEPT !.checkpoints[i].strong = 0]

\* dropping one CheckPoint handle (one Rc) of the i-th entry
drop_handle(s, i) ==
    [s EXCEPT !.checkpoints[i].strong = s.checkpoints[i].strong - 1]

\* mutant of reset: the cursor is set to the absolute position of the
\* checkpoint, as if the cell had never been rebased
reset_absolute(s, i) ==
    drop_handle([s EXCEPT !.cursor_pos = s.checkpoints[i].born], i)

\* mutant of reset: the handle is consumed, the cursor is not rewritten
reset_keeps_cursor(s, i) == drop_handle(s, i)

\* Resetable::reset: takes the handle by value, so the handle is dropped
\* when reset returns
reset(s, i) ==
    drop_handle([s EXCEPT !.cursor_pos = s.checkpoints[i].pos], i)

\* CheckPoint::clone (derived): one more handle to the same cell
clone_handle(s, i) ==
    [s EXCEPT !.checkpoints[i].strong = s.checkpoints[i].strong + 1]

\* CheckPoint handles the consumer holds
RECURSIVE Handles(_)
Handles(set) == IF set = <<>> THEN 0 ELSE Head(set).strong + Handles(Tail(set))

\* ---------------------------------------------------------------- history
NoFill == [fetched |-> FALSE, chunk |-> ZeroChunk, pos |-> 0, err |-> FALSE,
           eof |-> None, retries |-> 0]
FillView(f) == [fetched |-> TRUE, chunk |-> f.chunk, pos |-> f.reader.pos,
                err |-> f.err, eof |-> f.eof, retries |-> f.retries]

NoFills == [with |-> NoFill, without |-> NoFill]

\* the fill of a fetching uncons, as it ran and as it runs on the same
\* source when the interrupted results are left out
Fills(s, evs) ==
    LET r == free_useless_chunks(s).raw_read
    IN  [with |-> FillView(read_exact_or_eof(r, ZeroChunk, evs)),
         without |-> FillView(read_exact_or_eof(r, ZeroChunk, Strip(evs)))]

Install(s) ==
    /\ raw_read' = s.raw_read
    /\ buffer' = s.buffer
    /\ eof' = s.eof
    /\ checkpoints' = s.checkpoints
    /\ cursor_pos' = s.cursor_pos
    /\ offset' = s.offset
    /\ panic' = s.panic

\* the last operation was checkpoint(), clone() or drop(): nothing to record
NoCall == [op |-> "handle", res |-> NoResult, before |-> 0, fetched |-> FALSE,
           ref |-> -1, len |-> 0, expired |-> 0]

\* registry entries whose checkpoint has no handle left
Expired(set) == Len(SelectSeq(set, LAMBDA cp : ~Upgrades(cp)))

\* ------------------------------------------------------------------ state
Init ==
    /\ \E n \in 0..MaxLen : raw_read = [data |-> SourceData(n), pos |-> 0]
    /\ buffer = <<>>
    /\ eof = None
    /\ checkpoints = <<>>
    /\ cursor_pos = 0
    /\ offset = 0
    /\ panic = "none"
    /\ last = [op |-> "new", res |-> NoResult, before |-> 0,
               fetched |-> FALSE, ref |-> -1, len |-> 0, expired |-> 0]
    /\ last_fill = NoFills
    /\ fresh_reads = 0
    /\ at_eoi = FALSE
    /\ io_failures = 0

\* stream.uncons(), the read calls of its chunk fill turning out as evs; the
\* source fails with a non-transient error at most `failures` times
Uncons(failures) ==
    /\ panic = "none"
    /\ \E evs \in EventSeqs : \E r \in {uncons(Self, evs)} :
              /\ r.fetched \/ evs = NoEvents      \* no fill, no read call
              /\ r.res.kind = "err" => io_failures < failures
              /\ Install(r.self)
              /\ last' = [op |-> "uncons", res |-> r.res,
                          before |-> position(Self), fetched |-> r.fetched,
                          ref |-> IF last.op = "reset" THEN last.ref ELSE -1,
                          len |-> Len(buffer),
                          expired |-> IF r.fetched THEN Expired(checkpoints)
                                      ELSE 0]
              /\ last_fill' = IF r.fetched /\ r.res.kind # "panic"
                              THEN Fills(Self, evs) ELSE NoFills
              /\ fresh_reads' = IF r.res.kind = "ok" /\ fresh_reads >= 0
                                THEN fresh_reads + 1 ELSE fresh_reads
              /\ at_eoi' = (r.res.kind = "eoi")
              /\ io_failures' = IF r.res.kind = "err"
                                THEN io_failures + 1 ELSE io_failures

\* stream.checkpoint(), the consumer keeping the handle
Checkpoint ==
    /\ panic = "none"
    /\ Len(checkpoints) < MaxHandles
    /\ Handles(checkpoints) < MaxHandles
    /\ Install(checkpoint(Self))
    /\ last' = NoCall
    /\ last_fill' = NoFills
    /\ UNCHANGED <<fresh_reads, at_eoi, io_failures>>

\* stream.reset(cp), cp a handle the consumer holds on the i-th entry
Reset(i) ==
    /\ panic = "none"
    /\ Upgrades(checkpoints[i])
    /\ Install(reset(Self, i))
    /\ last' = [op |-> "reset", res |-> NoResult, before |-> position(Self),
                fetched |-> FALSE, ref |-> checkpoints[i].born, len |-> 0,
                expired |-> 0]
    /\ last_fill' = NoFills
    /\ fresh_reads' = -1
    /\ at_eoi' = FALSE
    /\ UNCHANGED io_failures

\* cp.clone()
Clone(i) ==
    /\ panic = "none"
    /\ Upgrades(checkpoints[i])
    /\ Handles(checkpoints) < MaxHandles
    /\ Install(clone_handle(Self, i))
    /\ last' = NoCall
    /\ last_fill' = NoFills
    /\ UNCHANGED <<fresh_reads, at_eoi, io_failures>>

\* drop(cp)
Drop(i) ==
    /\ panic = "none"
    /\ Upgrades(checkpoints[i])
    /\ Install(drop_handle(Self, i))
    /\ last' = NoCall
    /\ last_fill' = NoFills
    /\ UNCHANGED <<fresh_reads, at_eoi, io_failures>>

\* The consumer's calls, over a source that delivers all its data: reads
\* may be short or interrupted, none fails (a slice, as in the tests).
Next ==
    \/ Uncons(0)
    \/ Checkpoint
    \/ \E i \in 1..Len(checkpoints) : Reset(i)
    \/ \E i \in 1..Len(checkpoints) : Clone(i)
    \/ \E i \in 1..Len(checkpoints) : Drop(i)

Spec == Init /\ [][Next]_vars

\* The same calls over a source whose reads may also fail with an error
\* other than Interrupted.
NextIO ==
    \/ Uncons(MaxFailures)
    \/ Checkpoint
    \/ \E i \in 1..Len(checkpoints) : Reset(i)
    \/ \E i \in 1..Len(checkpoints) : Clone(i)
    \/ \E i \in 1..Len(checkpoints) : Drop(i)

SpecIO == Init /\ [][NextIO]_vars

\* ------------------------------------------------------------- properties
SourceLen == Len(raw_read.data)

\* what a read at absolute position p (0-based) of the source has to return
Expected(p) == IF p < SourceLen THEN Ok(raw_read.data[p + 1]) ELSE EndOfInput

LiveIndices == {i \in 1..Len(checkpoints) : Upgrades(checkpoints[i])}
NoLiveCheckpoint == LiveIndices = {}

SetMin(S) == CHOOSE m \in S : \A x \in S : m <= x

\* the eviction floor in absolute terms when the last call began: the least
\* of the position the cursor was at and the positions the live checkpoints
\* were taken at
FloorBefore == SetMin({last.before} \cup {checkpoints[i].born : i \in LiveIndices})

\* the eviction floor now, relative to the buffer head
FloorNow == SetMin({cursor_pos} \cup {checkpoints[i].pos : i \in LiveIndices})

\* the chunk holding absolute position p is buffered, or is the chunk the
\* next fetch appends
ChunkKept(p) ==
    \/ \E j \in 1..Len(buffer) : buffer[j].no = p \div CHUNK_SIZE
    \/ p \div CHUNK_SIZE = NextChunkNo(Self)

\* chunks needed to cover [head_floor, cursor_pos]
NeededChunks == chunk_index(Self) - (FloorNow \div CHUNK_SIZE) + 1

\* C1: on a fresh stream with no reset, over a source of N bytes that does
\* not fail (Spec), however its data is split over read calls, the k-th
\* successful uncons returns the k-th byte of the source, and the uncons
\* made after N successful ones returns EndOfInput.
C1_ReadsSourceInOrder ==
    (last.op = "uncons" /\ fresh_reads >= 0) =>
        LET k == IF last.res.kind = "ok" THEN fresh_reads - 1 ELSE fresh_reads
        IN  last.res = Expected(k)

\* C1 witness: a source of exactly two chunks was read to its end and the
\* call after the last byte returned EndOfInput
C1_Witness ==
    /\ SourceLen = 2 * CHUNK_SIZE
    /\ fresh_reads = SourceLen
    /\ last.op = "uncons"
    /\ last.res = EndOfInput

\* C2: reset(cp) followed by uncons returns the source byte at the absolute
\* position cp was taken at (the uncons itself not failing).
C2_ResetThenRead ==
    (/\ last.op = "uncons"
     /\ last.ref >= 0
     /\ last.ref < SourceLen
     /\ last.res.kind # "err") => last.res = Expected(last.ref)

\* the case of C2_ResetThenRead in which chunks were evicted between
\* checkpoint and reset and the checkpoint kept its chunk (reached under
\* Spec, where C2_ResetThenRead holds)
C2_AcrossEviction ==
    /\ last.op = "uncons"
    /\ last.ref >= 0
    /\ last.res.kind = "ok"
    /\ offset > 0
    /\ Len(buffer) >= 2

\* C3: for every live checkpoint, the chunk holding the byte at the position
\* it was taken at is still in the buffer (or is the chunk not fetched yet,
\* when the checkpoint sits at the end of the buffered data); the same for
\* the cursor.
C3_EvictionSafety ==
    /\ \A i \in LiveIndices :
          /\ ChunkKept(checkpoints[i].born)
          /\ checkpoints[i].pos >= 0
    /\ ChunkKept(position(Self))

\* C3 witness: a chunk was evicted, and a live checkpoint in the head chunk
\* holds that chunk back behind a cursor that read on and fetched
C3_Witness ==
    /\ offset > 0
    /\ Len(buffer) >= 2
    /\ \E i \in LiveIndices : checkpoints[i].born \div CHUNK_SIZE = buffer[1].no
    /\ last.op = "uncons"
    /\ last.fetched

\* C4: right after an uncons that fetched a chunk while no checkpoint was
\* live, the buffer holds exactly one chunk.
C4_EvictionEffective ==
    (last.op = "uncons" /\ last.fetched /\ NoLiveCheckpoint) => Len(buffer) = 1

\* C4 witness: the fetch found two chunks buffered and an expired checkpoint
\* in the registry, and left one chunk
C4_Witness ==
    /\ last.op = "uncons"
    /\ last.fetched
    /\ NoLiveCheckpoint
    /\ last.len = 2
    /\ last.expired > 0
    /\ Len(buffer) = 1

\* C5: with no reset so far, position() equals the number of successful
\* reads, whatever checkpoints were taken or dropped and whatever was evicted.
C5_PositionCountsReads == fresh_reads >= 0 => position(Self) = fresh_reads

\* C5 witness: two chunks were read through, chunks were evicted and a
\* checkpoint was taken on the way
C5_Witness ==
    /\ fresh_reads >= 2 * CHUNK_SIZE
    /\ offset > 0
    /\ Len(checkpoints) > 0

\* C6 as stated: position() never decreases, over any step.
C6_PositionMonotonic == [][position(Self)' >= position(Self)]_vars

\* C6 amended: position() never decreases over a step that is not a reset
\* (uncons, checkpoint, clone, drop); a reset sets it to the position its
\* checkpoint was taken at.
C6_PositionMonotonicButReset ==
    [][/\ last'.op # "reset" => position(Self)' >= position(Self)
       /\ last'.op = "reset" => position(Self)' = last'.ref]_vars

\* C6 witness: after a reset, an uncons fetched a chunk and evicted others
C6_Witness ==
    /\ fresh_reads = -1
    /\ last.op = "uncons"
    /\ last.fetched
    /\ last.len >= 2
    /\ Len(buffer) < last.len + 1

\* C7: an uncons that returns EndOfInput leaves position() as it was; and
\* after it, until a reset, every uncons returns EndOfInput again, fetches
\* nothing and leaves source, buffer, EOF marker, cursor and offset alone.
C7_EndOfInputIsStable ==
    [][/\ (last'.op = "uncons" /\ last'.res = EndOfInput) =>
              position(Self)' = position(Self)
       /\ (at_eoi /\ last'.op = "uncons") =>
              /\ last'.res = EndOfInput
              /\ ~last'.fetched
              /\ UNCHANGED <<raw_read, buffer, eof, cursor_pos, offset>>]_vars

\* C7 witness: with no reset in the run, an uncons returned EndOfInput at
\* the end of a source of two full chunks without fetching: the first
\* EndOfInput there needs a fetch, so this is a repeated call
C7_Witness ==
    /\ at_eoi
    /\ last.op = "uncons"
    /\ last.res = EndOfInput
    /\ ~last.fetched
    /\ SourceLen = 2 * CHUNK_SIZE
    /\ fresh_reads = SourceLen

\* C8: a chunk fill whose read calls were interrupted ends as the fill of
\* the same calls without the interrupted ones: same chunk contents, same
\* bytes taken from the source, same Ok / Err, same EOF marker.  The rest of
\* uncons reads only these, so the results of uncons are the same.
C8_InterruptedIsRetried ==
    last_fill.with.fetched =>
        /\ last_fill.with.chunk = last_fill.without.chunk
        /\ last_fill.with.pos = last_fill.without.pos
        /\ last_fill.with.err = last_fill.without.err
        /\ last_fill.with.eof = last_fill.without.eof
        /\ last_fill.without.retries = 0
        /\ last.res.kind \in {"ok", "eoi", "err"}
        /\ buffer[Len(buffer)].bytes = last_fill.without.chunk
        /\ raw_read.pos = last_fill.without.pos

\* C8 witness: a fill was interrupted twice, between two short reads, and
\* the uncons returned a byte
C8_Witness ==
    /\ last_fill.with.fetched
    /\ last_fill.with.retries >= 2
    /\ last_fill.with.pos >= 2
    /\ last.res.kind = "ok"

\* C9: right after an uncons that fetched a chunk, the registry holds no
\* expired entry, and the buffer starts at the chunk of the least position
\* among the cursor and the live checkpoints: expired ones do not count.
C9_ExpiredCheckpointsIgnored ==
    (last.op = "uncons" /\ last.fetched) =>
        /\ \A i \in 1..Len(checkpoints) : Upgrades(checkpoints[i])
        /\ buffer[1].no = FloorBefore \div CHUNK_SIZE
        /\ offset = (FloorBefore \div CHUNK_SIZE) * CHUNK_SIZE

\* C9 witness: the fetch found an expired entry, a live checkpoint and two
\* chunks, and evicted a chunk
C9_Witness ==
    /\ last.op = "uncons"
    /\ last.fetched
    /\ last.expired > 0
    /\ LiveIndices # {}
    /\ last.len = 2
    /\ Len(buffer) = 2

\* C10 as stated: in every state the buffer holds no more chunks than needed
\* to cover [head_floor, cursor_pos].
C10_BufferMinimal == Len(buffer) <= NeededChunks

\* C10 amended: right after an uncons that fetched a chunk, the buffer holds
\* no more chunks than needed to cover [head_floor, cursor_pos].
C10_BufferMinimalAfterFetch ==
    (last.op = "uncons" /\ last.fetched) => Len(buffer) <= NeededChunks

\* C10 witness: a fetch evicted a chunk and kept one for a live checkpoint
C10_Witness ==
    /\ last.op = "uncons"
    /\ last.fetched
    /\ offset > 0
    /\ Len(buffer) = 2
    /\ LiveIndices # {}

\* C11: chunks leave the buffer only inside an uncons that fetches a chunk:
\* checkpoint, clone, drop, reset and an uncons whose cursor is inside the
\* buffered data leave the chunks, the offset and the EOF marker unchanged
\* (and the source unread); checkpoint, clone and drop leave the cursor too.
C11_EvictionOnlyOnFetch ==
    [][/\ ~(last'.op = "uncons" /\ last'.fetched) =>
              UNCHANGED <<buffer, offset, eof, raw_read>>
       /\ last'.op = "handle" => UNCHANGED cursor_pos]_vars

\* C11 witness: an uncons read inside the buffered data while the buffer held
\* a chunk nothing needs any more (the checkpoint that kept it was restored)
C11_Witness ==
    /\ last.op = "uncons"
    /\ ~last.fetched
    /\ last.res.kind = "ok"
    /\ last.ref >= 0
    /\ Len(buffer) > NeededChunks

\* the registry and the rebase amount as free_useless_chunks has them when
\* it calls sub_offset (lib.rs:111-121), were it called in this state
RebaseCall ==
    LET scan == CheckPointSet_min(checkpoints)
    IN  [set |-> scan.set,
         delta |-> (global_pos_min(Self, scan.min) \div CHUNK_SIZE) * CHUNK_SIZE]

\* C12: wherever uncons is about to call free_useless_chunks (the cursor is
\* at the end of the buffered chunks), the sub_offset call it makes meets
\* its precondition: every entry left by the scan upgrades, and the amount
\* is <= every live checkpoint position and <= cursor_pos.  So the unwrap
\* and the two subtractions never fail, and the drain is within the buffer.
C12_RebasePrecondition ==
    /\ panic \notin {"sub_offset_unwrap", "sub_offset_underflow",
                     "cursor_underflow", "drain_range"}
    /\ chunk_index(Self) = Len(buffer) =>
          /\ \A i \in 1..Len(RebaseCall.set) :
                /\ Upgrades(RebaseCall.set[i])
                /\ RebaseCall.delta <= RebaseCall.set[i].pos
          /\ RebaseCall.delta <= cursor_pos
          /\ RebaseCall.delta \div CHUNK_SIZE <= Len(buffer)

\* C12 witness: an eviction found an expired entry and a live checkpoint,
\* dropped the first and rebased the second by a chunk or more
C12_Witness ==
    /\ last.op = "uncons"
    /\ last.fetched
    /\ last.expired > 0
    /\ offset > 0
    /\ \E i \in LiveIndices : checkpoints[i].born > checkpoints[i].pos
    /\ panic = "none"

\* the entries of the registry that upgrade, in registry order
Live(set) == SelectSeq(set, Upgrades)

\* what position pos addresses in buf: the chunk (by its number), the index
\* in the chunk and the byte there; nothing while the chunk is not fetched
Addressed(buf, pos) ==
    IF pos \div CHUNK_SIZE < Len(buf)
    THEN <<buf[(pos \div CHUNK_SIZE) + 1].no, pos % CHUNK_SIZE,
           buf[(pos \div CHUNK_SIZE) + 1].bytes[(pos % CHUNK_SIZE) + 1]>>
    ELSE <<>>

\* C13: eviction is invisible in absolute terms.  Every live checkpoint is
\* at offset + position = the position() it was taken at, whatever was
\* evicted since; and wherever uncons is about to run free_useless_chunks,
\* that step keeps offset + cursor_pos, keeps offset + position and the
\* distance to the cursor for every live checkpoint, and keeps the chunk and
\* the byte each of them addresses.
C13_EvictionInvisible ==
    /\ \A i \in LiveIndices : offset + checkpoints[i].pos = checkpoints[i].born
    /\ chunk_index(Self) = Len(buffer) =>
          LET e    == free_useless_chunks(Self)
              live == Live(checkpoints)
          IN  /\ position(e) = position(Self)
              /\ Addressed(e.buffer, e.cursor_pos) = Addressed(buffer, cursor_pos)
              /\ Len(e.checkpoints) = Len(live)
              /\ \A k \in 1..Len(live) :
                    /\ e.offset + e.checkpoints[k].pos = offset + live[k].pos
                    /\ e.cursor_pos - e.checkpoints[k].pos
                          = cursor_pos - live[k].pos
                    /\ Addressed(e.buffer, e.checkpoints[k].pos)
                          = Addressed(buffer, live[k].pos)

\* C13 witness: a fetch evicted a chunk and rebased a live checkpoint that
\* lies behind the cursor, in a chunk still buffered
C13_Witness ==
    /\ last.op = "uncons"
    /\ last.fetched
    /\ offset > 0
    /\ \E i \in LiveIndices :
          /\ checkpoints[i].born > checkpoints[i].pos
          /\ checkpoints[i].pos < cursor_pos
          /\ Addressed(buffer, checkpoints[i].pos) # <<>>

\* C14: in every reachable state chunk_index <= number of buffered chunks,
\* so the assertion at the entry of uncons (lib.rs:155) never fails; and the
\* lookup of lib.rs:172 never misses: where no fetch is due the cursor is
\* inside the buffer, where one is due it appends the chunk of the cursor.
C14_CursorWithinBuffer ==
    /\ panic \notin {"assert_chunk_index", "get_unwrap"}
    /\ chunk_index(Self) <= Len(buffer)
    /\ chunk_index(Self) = Len(buffer) =>
          chunk_index(free_useless_chunks(Self))
              = Len(free_useless_chunks(Self).buffer)

\* C14 witness: a reset restored a checkpoint that lies ahead of the cursor
\* and at the very end of the buffered chunks
C14_Witness ==
    /\ last.op = "reset"
    /\ position(Self) > last.before
    /\ Len(buffer) > 0
    /\ chunk_index(Self) = Len(buffer)

\* where the fetch of uncons finds the EOF marker present (lib.rs:157-158)
FetchAfterEof == eof.some /\ chunk_index(Self) = Len(buffer)

\* C15: once the EOF marker is recorded, no step changes it, fetches a chunk
\* or reads the source; and no step leads to a state in which the cursor is
\* at the end of the buffered chunks while the marker is present (the
\* initial state has no marker), so the assertion of lib.rs:158 never fails.
C15_EofIsFinal ==
    [][/\ panic' # "assert_eof"
       /\ ~FetchAfterEof'
       /\ eof.some =>
              /\ UNCHANGED <<eof, buffer, raw_read, offset>>
              /\ ~last'.fetched]_vars

\* C15 witness: the source ended on a chunk boundary, so the marker covers a
\* whole chunk; after the end of input a checkpoint at the very end was
\* restored
C15_Witness ==
    /\ eof.some
    /\ eof.val = CHUNK_SIZE
    /\ Len(buffer) >= 2
    /\ last.op = "reset"
    /\ position(Self) = SourceLen
    /\ last.before < SourceLen

\* C16: every byte uncons returns is the byte of the source at the position
\* position() had when the call began, also after an earlier uncons failed
\* with a non-transient error while it filled a new chunk.
C16_ByteFidelity ==
    (last.op = "uncons" /\ last.res.kind = "ok") =>
        last.res = Expected(last.before)

\* the case of C16_ByteFidelity without a failure: after resets and
\* evictions an uncons returned a byte (reached under Spec, where
\* C16_ByteFidelity holds)
C16_AfterResetAndEviction ==
    /\ last.op = "uncons"
    /\ last.res.kind = "ok"
    /\ fresh_reads = -1
    /\ offset > 0
    /\ io_failures = 0

\* C17: right after reset(cp), position() is the value position() had when
\* cp was created, whatever was read, evicted, and whatever other
\* checkpoints were created, restored or dropped in between.
C17_PositionRoundTrip == last.op = "reset" => position(Self) = last.ref

\* C17 witness: a checkpoint was restored after chunks were evicted (its cell
\* no longer holds the position it was taken at), the cursor had read on
\* past it, and the registry holds another entry
C17_Witness ==
    /\ last.op = "reset"
    /\ offset > 0
    /\ last.ref >= offset
    /\ last.ref < last.before
    /\ Len(checkpoints) >= 2

\* C18 as stated: every reset leaves cursor_pos <= cursor_pos before the
\* call, and not before the buffer head.
C18_RestoreOnlyDecreases ==
    [][last'.op = "reset" =>
          /\ cursor_pos' <= cursor_pos
          /\ cursor_pos' >= 0]_vars

\* C18 amended: a reset sets cursor_pos to the position of its checkpoint
\* relative to the buffer head, which is not before the head and not beyond
\* the end of the buffered chunks; it does not exceed cursor_pos before the
\* call while no earlier reset has moved the cursor back.
C18_RestoreWithinBuffer ==
    [][last'.op = "reset" =>
          /\ last'.ref >= offset
          /\ cursor_pos' = last'.ref - offset
          /\ cursor_pos' \div CHUNK_SIZE <= Len(buffer')
          /\ fresh_reads >= 0 => cursor_pos' <= cursor_pos]_vars

\* C18 witness: after evictions, a reset restored a checkpoint that lies
\* ahead of the cursor (an earlier reset had moved the cursor behind it)
C18_Witness ==
    /\ last.op = "reset"
    /\ offset > 0
    /\ cursor_pos > 0
    /\ position(Self) > last.before

\* every checkpoint of which a handle is held is live, its cell is the
\* position it was taken at, rebased, and its chunk is buffered (or is the
\* chunk the next fetch appends)
HeldIsProtected ==
    \A i \in 1..Len(checkpoints) :
        checkpoints[i].strong > 0 =>
            /\ Upgrades(checkpoints[i])
            /\ offset + checkpoints[i].pos = checkpoints[i].born
            /\ ChunkKept(checkpoints[i].born)
            /\ Addressed(buffer, checkpoints[i].pos) # <<>> =>
                  Addressed(buffer, checkpoints[i].pos)[1]
                      = checkpoints[i].born \div CHUNK_SIZE

\* C19: a checkpoint stays live while any of its handles (clones) is held.
\* While it is live its cell is the position it was taken at, rebased once
\* per eviction, and its chunk stays buffered (after every step; the
\* initial state has no checkpoint).  A reset or a drop releases exactly
\* one handle of one checkpoint and touches no other entry, so after
\* reset(cp.clone()) the checkpoint is still live; every reset, of
\* whichever handle, gives the position the checkpoint was taken at; and
\* the bytes of a buffered chunk never change, so it reads the same bytes.
C19_SharedCheckpoint ==
    [][/\ HeldIsProtected'
       /\ Handles(checkpoints') < Handles(checkpoints) =>
            \E i \in 1..Len(checkpoints) :
                checkpoints' =
                    [checkpoints EXCEPT ![i].strong = checkpoints[i].strong - 1]
       /\ last'.op = "reset" =>
            /\ Handles(checkpoints') = Handles(checkpoints) - 1
            /\ position(Self)' = last'.ref
       /\ \A j \in 1..Len(buffer) : \A k \in 1..Len(buffer') :
            buffer[j].no = buffer'[k].no => buffer[j] = buffer'[k]]_vars

\* C19 witness: a checkpoint with two handles was rebased by an eviction
\* and then restored through one of them: it is the one entry of the
\* registry, it is still live, and its chunk is buffered
C19_Witness ==
    /\ last.op = "reset"
    /\ offset > 0
    /\ Len(checkpoints) = 1
    /\ checkpoints[1].strong >= 1
    /\ checkpoints[1].born = last.ref
    /\ checkpoints[1].born > checkpoints[1].pos
    /\ Addressed(buffer, checkpoints[1].pos) # <<>>

\* the least of cursor_pos and the live checkpoint positions as the
\* eviction of the last uncons left them: the cursor before the byte the
\* call went on to consume
FloorAfterEviction ==
    SetMin({IF last.res.kind = "ok" THEN cursor_pos - 1 ELSE cursor_pos}
           \cup {checkpoints[i].pos : i \in LiveIndices})

\* C20: an uncons that fetched a chunk leaves the least of cursor_pos (before
\* the new byte is consumed) and the live checkpoint positions below
\* CHUNK_SIZE, and the head chunk is the chunk at offset; offset is a
\* multiple of CHUNK_SIZE after every step and no step lowers it.
C20_EvictionMaximal ==
    [][/\ (last'.op = "uncons" /\ last'.fetched) =>
              /\ FloorAfterEviction' >= 0
              /\ FloorAfterEviction' < CHUNK_SIZE
              /\ buffer'[1].no * CHUNK_SIZE = offset'
       /\ offset' % CHUNK_SIZE = 0
       /\ offset' >= offset]_vars

\* C20 witness: a fetch evicted a chunk with the cursor a chunk or more
\* ahead of a live checkpoint, which the eviction left in the head chunk
C20_Witness ==
    /\ last.op = "uncons"
    /\ last.fetched
    /\ offset > 0
    /\ cursor_pos >= CHUNK_SIZE
    /\ \E i \in LiveIndices :
          /\ checkpoints[i].pos < CHUNK_SIZE
          /\ checkpoints[i].born >= CHUNK_SIZE

====
